---- MODULE Spec2Model ----
(***************************************************************************)
(* The in-memory cache of pkg/utils/cache.go: five maps, each guarded by   *)
(* its own sync.Mutex, called concurrently by goroutines.                  *)
(*                                                                         *)
(* A goroutine is in one function at a time.  pc[t] is its position:       *)
(*   "idle"   between calls                                                *)
(*   "lock"   called, blocked in cacheMutex.Lock()                         *)
(*   "cs"     lock held, body not yet executed                             *)
(*   "ret"    body executed, return value computed, deferred Unlock due    *)
(*   "panic"  nil dereference raised, deferred Unlock due                  *)
(*   "dead"   the goroutine ended by the panic                             *)
(* and further positions inside the functions that take several steps.    *)
(* Pointers are modelled by value; a record that the program mutates in    *)
(* place carries the identity of its allocation in the field ptr.          *)
(***************************************************************************)
EXTENDS Integers, Sequences, FiniteSets

VARIABLES fileCache, orbsCache, dockerCache, contextCache, projectCache,
          mutex, disk, pc, op, arg, loc, ret, held, client,
          last, lastLocker

stores  == <<fileCache, orbsCache, dockerCache, contextCache, projectCache>>
vars    == <<fileCache, orbsCache, dockerCache, contextCache, projectCache,
             mutex, disk, pc, op, arg, loc, ret, held, client,
             last, lastLocker>>

---------------------------------------------------------------------------
(* Bounds *)

\* goroutines calling the cache
NumThreads == 2
\* keys of each store (URIs, orb ids, image names, context names, slugs)
NumKeys == 2
\* distinct allocations a caller passes for one key
NumObjs == 2
\* longest environment-variable list a caller puts in a record it passes
MaxLen == 2
\* distinct environment-variable names
NumNames == 2

Threads == 1 .. NumThreads
Keys    == 1 .. NumKeys
Objs    == 1 .. NumObjs
Names   == 1 .. NumNames

\* a nil pointer, an absent map entry, the zero value of a result
Nil  == [nil |-> TRUE]
\* no goroutine
None == 0

FileCache    == "FileCache"
OrbCache     == "OrbCache"
DockerCache  == "DockerCache"
ContextCache == "ContextCache"
ProjectCache == "ProjectCache"
\* a caller of the methods of Cache itself (RemoveOrbFiles, ClearHostData)
Cache        == "Cache"

Stores == {FileCache, OrbCache, DockerCache, ContextCache, ProjectCache}

---------------------------------------------------------------------------
(* Values *)

\* *protocol.TextDocumentItem
Files == [URI : Keys, Version : Objs]

\* *ast.OrbInfo: RemoteInfo.FilePath and OrbParsedAttributes (0: not parsed).
\* The definition of orb k is materialised at path k.
Paths == Keys
Attrs == {1, 2}
Orbs  == [ptr : Objs, FilePath : Paths, OrbParsedAttributes : {0}]

\* lists of at most n names
RECURSIVE SeqsUpTo(_)
SeqsUpTo(n) ==
    IF n = 0 THEN {<< >>}
    ELSE LET S == SeqsUpTo(n - 1)
         IN  S \cup {Append(s, x) : s \in {q \in S : Len(q) = n - 1}, x \in Names}

EnvLists == SeqsUpTo(MaxLen)

\* *Context and *Project
Contexts == [ptr : Objs, Name : Keys, envVariables : EnvLists]
Projects == [ptr : Objs, Slug : Keys, EnvVariables : EnvLists]

\* the filesystem at a path: nothing, a file os.Remove deletes, or an entry
\* os.Stat finds and os.Remove fails on
DiskStates == {"absent", "file", "undeletable"}

---------------------------------------------------------------------------
(* Initial state: Cache.init *)

EmptyMap == [k \in Keys |-> Nil]

InitCache ==
    /\ fileCache    = EmptyMap
    /\ orbsCache    = EmptyMap
    /\ dockerCache  = EmptyMap
    /\ contextCache = EmptyMap
    /\ projectCache = EmptyMap
    /\ mutex        = [m \in Stores |-> None]

InitThreads ==
    /\ pc   = [t \in Threads |-> "idle"]
    /\ op   = [t \in Threads |-> "none"]
    /\ arg  = [t \in Threads |-> Nil]
    /\ loc  = [t \in Threads |-> Nil]
    /\ ret  = [t \in Threads |-> Nil]
    /\ held = [t \in Threads |-> "none"]

InitHistory ==
    /\ last       = [s \in Stores |-> EmptyMap]
    /\ lastLocker = [s \in Stores |-> None]

---------------------------------------------------------------------------
(* Steps common to every function *)

\* a caller that uses the API c invokes fn with arguments a; it drops what
\* the previous call returned
Call(t, c, fn, a) ==
    /\ pc[t] = "idle"
    /\ c \in client[t]
    /\ pc'   = [pc EXCEPT ![t] = "lock"]
    /\ op'   = [op EXCEPT ![t] = fn]
    /\ arg'  = [arg EXCEPT ![t] = a]
    /\ held' = [held EXCEPT ![t] = "none"]
    /\ UNCHANGED <<stores, mutex, disk, loc, ret, client, last, lastLocker>>

\* an init that gives the ProjectCache the mutex of the ContextCache
CacheMutexShared(s) == IF s = ProjectCache THEN ContextCache ELSE s

\* the mutex init gives store s: each store a sync.Mutex of its own
CacheMutex(s) == s

\* a Lock that does not wait for the holder
MutexLockNoWait(t, s, next) ==
    /\ mutex' = [mutex EXCEPT ![CacheMutex(s)] = t]
    /\ lastLocker' = [lastLocker EXCEPT ![CacheMutex(s)] = t]
    /\ pc' = [pc EXCEPT ![t] = next]

\* s.cacheMutex.Lock(): blocks while the mutex is held
MutexLock(t, s, next) ==
    /\ mutex[CacheMutex(s)] = None
    /\ mutex' = [mutex EXCEPT ![CacheMutex(s)] = t]
    /\ lastLocker' = [lastLocker EXCEPT ![CacheMutex(s)] = t]
    /\ pc' = [pc EXCEPT ![t] = next]

\* an Unlock that leaves the mutex locked
MutexUnlockKeeps(s) == UNCHANGED mutex

\* s.cacheMutex.Unlock()
MutexUnlock(s) == mutex' = [mutex EXCEPT ![CacheMutex(s)] = None]

Lock(t, fn, s) ==
    /\ pc[t] = "lock"
    /\ op[t] = fn
    /\ MutexLock(t, s, "cs")
    /\ UNCHANGED <<stores, disk, op, arg, loc, ret, held, client, last>>

\* defer c.cacheMutex.Unlock(), then the return to the caller, who keeps a
\* map that was returned; after a panic the deferred Unlock runs and the
\* goroutine ends
Unlock(t, fn, s) ==
    /\ pc[t] \in {"ret", "panic"}
    /\ op[t] = fn
    /\ MutexUnlock(s)
    /\ pc'  = [pc EXCEPT ![t] = IF pc[t] = "ret" THEN "idle" ELSE "dead"]
    /\ op'  = [op EXCEPT ![t] = "none"]
    /\ arg' = [arg EXCEPT ![t] = Nil]
    /\ loc' = [loc EXCEPT ![t] = Nil]
    /\ ret' = [ret EXCEPT ![t] = Nil]
    /\ held' = [held EXCEPT ![t] =
                   IF "ref" \in DOMAIN ret[t] THEN ret[t].ref ELSE "none"]
    /\ UNCHANGED <<stores, disk, client, last, lastLocker>>

\* the body of fn starts: lock held, nothing executed yet
InBody(t, fn) == pc[t] = "cs" /\ op[t] = fn

\* the body ends with result r
Return(t, r) ==
    /\ pc'  = [pc EXCEPT ![t] = "ret"]
    /\ ret' = [ret EXCEPT ![t] = r]

\* history: the pointer most recently written under key k of store s
Wrote(s, k, v) == last' = [last EXCEPT ![s][k] = v]

---------------------------------------------------------------------------
(* FileCache *)

\* a Set that keeps an entry the key already has
SetFileMapKeepsOld(m, file) ==
    IF m[file.URI] = Nil THEN [m EXCEPT ![file.URI] = file] ELSE m

SetFileMap(m, file) == [m EXCEPT ![file.URI] = file]

SetFile(t, file) ==
    \/ Call(t, FileCache, "SetFile", [file |-> file])
    \/ Lock(t, "SetFile", FileCache)
    \/ /\ InBody(t, "SetFile")
       /\ fileCache' = SetFileMap(fileCache, arg[t].file)
       /\ Return(t, arg[t].file)
       /\ Wrote(FileCache, arg[t].file.URI, arg[t].file)
       /\ UNCHANGED <<orbsCache, dockerCache, contextCache, projectCache,
                      mutex, disk, op, arg, loc, held, client, lastLocker>>
    \/ Unlock(t, "SetFile", FileCache)

GetFile(t, uri) ==
    \/ Call(t, FileCache, "GetFile", [uri |-> uri])
    \/ Lock(t, "GetFile", FileCache)
    \/ /\ InBody(t, "GetFile")
       /\ Return(t, fileCache[arg[t].uri])
       /\ UNCHANGED <<stores, mutex, disk, op, arg, loc, held, client,
                      last, lastLocker>>
    \/ Unlock(t, "GetFile", FileCache)

\* return c.fileCache: the map itself, not a copy
GetFiles(t) ==
    \/ Call(t, FileCache, "GetFiles", Nil)
    \/ Lock(t, "GetFiles", FileCache)
    \/ /\ InBody(t, "GetFiles")
       /\ Return(t, [ref |-> FileCache])
       /\ UNCHANGED <<stores, mutex, disk, op, arg, loc, held, client,
                      last, lastLocker>>
    \/ Unlock(t, "GetFiles", FileCache)

RemoveFileMap(m, uri) == [m EXCEPT ![uri] = Nil]

RemoveFile(t, uri) ==
    \/ Call(t, FileCache, "RemoveFile", [uri |-> uri])
    \/ Lock(t, "RemoveFile", FileCache)
    \/ /\ InBody(t, "RemoveFile")
       /\ fileCache' = RemoveFileMap(fileCache, arg[t].uri)
       /\ Return(t, Nil)
       /\ Wrote(FileCache, arg[t].uri, Nil)
       /\ UNCHANGED <<orbsCache, dockerCache, contextCache, projectCache,
                      mutex, disk, op, arg, loc, held, client, lastLocker>>
    \/ Unlock(t, "RemoveFile", FileCache)

---------------------------------------------------------------------------
(* OrbCache *)

HasOrb(t, orbID) ==
    \/ Call(t, OrbCache, "HasOrb", [orbID |-> orbID])
    \/ Lock(t, "HasOrb", OrbCache)
    \/ /\ InBody(t, "HasOrb")
       /\ Return(t, [ok |-> orbsCache[arg[t].orbID] # Nil])
       /\ UNCHANGED <<stores, mutex, disk, op, arg, loc, held, client,
                      last, lastLocker>>
    \/ Unlock(t, "HasOrb", OrbCache)

SetOrbMap(m, orb, orbID) == [m EXCEPT ![orbID] = orb]

SetOrb(t, orb, orbID) ==
    \/ Call(t, OrbCache, "SetOrb", [orbID |-> orbID, orb |-> orb])
    \/ Lock(t, "SetOrb", OrbCache)
    \/ /\ InBody(t, "SetOrb")
       /\ orbsCache' = SetOrbMap(orbsCache, arg[t].orb, arg[t].orbID)
       /\ Return(t, arg[t].orb)
       /\ Wrote(OrbCache, arg[t].orbID, arg[t].orb)
       /\ UNCHANGED <<fileCache, dockerCache, contextCache, projectCache,
                      mutex, disk, op, arg, loc, held, client, lastLocker>>
    \/ Unlock(t, "SetOrb", OrbCache)

\* an update that stores a new record under the id
UpdateOrbMapFresh(m, orbID, parsedOrbAttributes) ==
    [m EXCEPT ![orbID] = [ptr |-> 1, FilePath |-> orbID,
                          OrbParsedAttributes |-> parsedOrbAttributes]]

\* the record the entry points to gets the attributes
UpdateOrbMap(m, orbID, parsedOrbAttributes) ==
    [m EXCEPT ![orbID].OrbParsedAttributes = parsedOrbAttributes]

\* c.orbsCache[orbID].OrbParsedAttributes = parsedOrbAttributes: the record
\* is changed in place; a nil entry is dereferenced
UpdateOrbParsedAttributes(t, orbID, parsedOrbAttributes) ==
    \/ Call(t, OrbCache, "UpdateOrbParsedAttributes",
            [orbID |-> orbID, parsedOrbAttributes |-> parsedOrbAttributes])
    \/ Lock(t, "UpdateOrbParsedAttributes", OrbCache)
    \/ /\ InBody(t, "UpdateOrbParsedAttributes")
       /\ IF orbsCache[arg[t].orbID] = Nil
          THEN /\ pc' = [pc EXCEPT ![t] = "panic"]
               /\ UNCHANGED <<orbsCache, ret>>
          ELSE /\ orbsCache' = UpdateOrbMap(orbsCache, arg[t].orbID,
                                            arg[t].parsedOrbAttributes)
               /\ Return(t, [attrs |-> arg[t].parsedOrbAttributes])
       /\ UNCHANGED <<fileCache, dockerCache, contextCache, projectCache,
                      mutex, disk, op, arg, loc, held, client,
                      last, lastLocker>>
    \/ Unlock(t, "UpdateOrbParsedAttributes", OrbCache)

GetOrb(t, orbID) ==
    \/ Call(t, OrbCache, "GetOrb", [orbID |-> orbID])
    \/ Lock(t, "GetOrb", OrbCache)
    \/ /\ InBody(t, "GetOrb")
       /\ Return(t, orbsCache[arg[t].orbID])
       /\ UNCHANGED <<stores, mutex, disk, op, arg, loc, held, client,
                      last, lastLocker>>
    \/ Unlock(t, "GetOrb", OrbCache)

RemoveOrbMap(m, orbID) == [m EXCEPT ![orbID] = Nil]

RemoveOrb(t, orbID) ==
    \/ Call(t, OrbCache, "RemoveOrb", [orbID |-> orbID])
    \/ Lock(t, "RemoveOrb", OrbCache)
    \/ /\ InBody(t, "RemoveOrb")
       /\ orbsCache' = RemoveOrbMap(orbsCache, arg[t].orbID)
       /\ Return(t, Nil)
       /\ Wrote(OrbCache, arg[t].orbID, Nil)
       /\ UNCHANGED <<fileCache, dockerCache, contextCache, projectCache,
                      mutex, disk, op, arg, loc, held, client, lastLocker>>
    \/ Unlock(t, "RemoveOrb", OrbCache)

\* the entries a range over the map visits
Entries(m) == {k \in DOMAIN m : m[k] # Nil}

\* a loop that deletes the first key only
RemoveOrbsMapFirst(m) == [m EXCEPT ![1] = Nil]

\* for k := range c.orbsCache { delete(c.orbsCache, k) }
RemoveOrbsMap(m) == [k \in DOMAIN m |-> Nil]

\* Called by a client, or by ClearHostData (line 200), to which it returns.
\* loc keeps the keys the range visited.
RemoveOrbs(t) ==
    \/ Call(t, OrbCache, "RemoveOrbs", Nil)
    \/ Lock(t, "RemoveOrbs", OrbCache)
    \/ /\ InBody(t, "RemoveOrbs")
       /\ orbsCache' = RemoveOrbsMap(orbsCache)
       /\ loc' = [loc EXCEPT ![t] = [visited |-> Entries(orbsCache)]]
       /\ Return(t, Nil)
       /\ last' = [last EXCEPT ![OrbCache] = EmptyMap]
       /\ UNCHANGED <<fileCache, dockerCache, contextCache, projectCache,
                      mutex, disk, op, arg, held, client, lastLocker>>
    \/ Unlock(t, "RemoveOrbs", OrbCache)

\* os.Stat(path) returns no error
StatOk(d, path) == d[path] # "absent"

\* a loop that removes nothing
StatRemoveSkips(d, path) == d

\* a removal that takes every file with it
StatRemoveAll(d, path) == [p \in DOMAIN d |-> "absent"]

\* if _, err := os.Stat(path); err == nil { os.Remove(path) }: the result
\* of os.Remove is dropped
StatRemove(d, path) ==
    IF StatOk(d, path) /\ d[path] = "file"
    THEN [d EXCEPT ![path] = "absent"]
    ELSE d

\* the two Locks in the other order
RemoveOrbFilesLocksSwapped == <<FileCache, OrbCache>>

\* the stores whose mutexes RemoveOrbFiles locks, in the order of lines 141
\* and 143
RemoveOrbFilesLocks == <<OrbCache, FileCache>>

\* Takes the OrbCache mutex, then the FileCache mutex, and visits the
\* entries in the order of the range (any order); the deferred Unlocks run
\* last in, first out.  Called by a client, or by ClearHostData (line 199),
\* which goes on to line 200 when it returns.
RemoveOrbFiles(t) ==
    \/ Call(t, Cache, "RemoveOrbFiles", [in |-> "RemoveOrbFiles"])
    \/ /\ pc[t] = "lock"
       /\ op[t] = "RemoveOrbFiles"
       /\ MutexLock(t, RemoveOrbFilesLocks[1], "lock2")
       /\ UNCHANGED <<stores, disk, op, arg, loc, ret, held, client, last>>
    \/ /\ pc[t] = "lock2"
       /\ op[t] = "RemoveOrbFiles"
       /\ MutexLock(t, RemoveOrbFilesLocks[2], "range")
       /\ loc' = [loc EXCEPT ![t] = [todo |-> Entries(orbsCache)]]
       /\ UNCHANGED <<stores, disk, op, arg, ret, held, client, last>>
    \/ /\ pc[t] = "range"
       /\ op[t] = "RemoveOrbFiles"
       /\ \E k \in loc[t].todo :
             /\ disk' = StatRemove(disk, orbsCache[k].FilePath)
             /\ loc' = [loc EXCEPT ![t] = [todo |-> loc[t].todo \ {k}]]
       /\ UNCHANGED <<stores, mutex, pc, op, arg, ret, held, client,
                      last, lastLocker>>
    \/ /\ pc[t] = "range"
       /\ op[t] = "RemoveOrbFiles"
       /\ loc[t].todo = {}
       /\ pc' = [pc EXCEPT ![t] = "unlock2"]
       /\ loc' = [loc EXCEPT ![t] = Nil]
       /\ UNCHANGED <<stores, mutex, disk, op, arg, ret, held, client,
                      last, lastLocker>>
    \/ /\ pc[t] = "unlock2"
       /\ op[t] = "RemoveOrbFiles"
       /\ MutexUnlock(RemoveOrbFilesLocks[2])
       /\ pc' = [pc EXCEPT ![t] = "unlock1"]
       /\ UNCHANGED <<stores, disk, op, arg, loc, ret, held, client,
                      last, lastLocker>>
    \/ /\ pc[t] = "unlock1"
       /\ op[t] = "RemoveOrbFiles"
       /\ MutexUnlock(RemoveOrbFilesLocks[1])
       /\ IF arg[t].in = "ClearHostData"
          THEN /\ pc' = [pc EXCEPT ![t] = "line200"]
               /\ UNCHANGED <<op, arg>>
          ELSE /\ pc'  = [pc EXCEPT ![t] = "idle"]
               /\ op'  = [op EXCEPT ![t] = "none"]
               /\ arg' = [arg EXCEPT ![t] = Nil]
       /\ UNCHANGED <<stores, disk, loc, ret, held, client, last, lastLocker>>

\* cache.RemoveOrbFiles() (line 199), then cache.OrbCache.RemoveOrbs()
\* (line 200).  atCall remembers the file paths of the entries the OrbCache
\* holds at the call.
ClearHostData(t) ==
    \/ Call(t, Cache, "RemoveOrbFiles",
            [in |-> "ClearHostData",
             atCall |-> {orbsCache[k].FilePath : k \in Entries(orbsCache)}])
    \/ /\ pc[t] = "line200"
       /\ pc' = [pc EXCEPT ![t] = "lock"]
       /\ op' = [op EXCEPT ![t] = "RemoveOrbs"]
       /\ UNCHANGED <<stores, mutex, disk, arg, loc, ret, held, client,
                      last, lastLocker>>

---------------------------------------------------------------------------
(* DockerCache *)

\* an Add that marks the entry checked only when the image exists
AddMapChecksExisting(m, name, exists) ==
    [m EXCEPT ![name] = [Checked |-> exists, Exists |-> exists]]

AddMap(m, name, exists) ==
    [m EXCEPT ![name] = [Checked |-> TRUE, Exists |-> exists]]

Add(t, name, exists) ==
    \/ Call(t, DockerCache, "Add", [name |-> name, exists |-> exists])
    \/ Lock(t, "Add", DockerCache)
    \/ /\ InBody(t, "Add")
       /\ dockerCache' = AddMap(dockerCache, arg[t].name, arg[t].exists)
       /\ Return(t, dockerCache'[arg[t].name])
       /\ Wrote(DockerCache, arg[t].name,
                [Checked |-> TRUE, Exists |-> arg[t].exists])
       /\ UNCHANGED <<fileCache, orbsCache, contextCache, projectCache,
                      mutex, disk, op, arg, loc, held, client, lastLocker>>
    \/ Unlock(t, "Add", DockerCache)

Get(t, name) ==
    \/ Call(t, DockerCache, "Get", [name |-> name])
    \/ Lock(t, "Get", DockerCache)
    \/ /\ InBody(t, "Get")
       /\ Return(t, dockerCache[arg[t].name])
       /\ UNCHANGED <<stores, mutex, disk, op, arg, loc, held, client,
                      last, lastLocker>>
    \/ Unlock(t, "Get", DockerCache)

\* a Remove that empties the map
RemoveMapAll(m, name) == [k \in DOMAIN m |-> Nil]

RemoveMap(m, name) == [m EXCEPT ![name] = Nil]

Remove(t, name) ==
    \/ Call(t, DockerCache, "Remove", [name |-> name])
    \/ Lock(t, "Remove", DockerCache)
    \/ /\ InBody(t, "Remove")
       /\ dockerCache' = RemoveMap(dockerCache, arg[t].name)
       /\ Return(t, Nil)
       /\ Wrote(DockerCache, arg[t].name, Nil)
       /\ UNCHANGED <<fileCache, orbsCache, contextCache, projectCache,
                      mutex, disk, op, arg, loc, held, client, lastLocker>>
    \/ Unlock(t, "Remove", DockerCache)

---------------------------------------------------------------------------
(* ContextCache *)

\* the index of the first element of arr equal to x, counted from 0, or -1
RECURSIVE FindFrom(_, _, _)
FindFrom(arr, x, i) ==
    IF i > Len(arr) THEN -1
    ELSE IF arr[i] = x THEN i - 1
    ELSE FindFrom(arr, x, i + 1)

FindInArray(arr, x) == FindFrom(arr, x, 1)

\* an append without the membership test
AppendAlways(list, envVariable) == Append(list, envVariable)

\* if FindInArray(list, v) < 0 { list = append(list, v) }
AppendIfMissing(list, envVariable) ==
    IF FindInArray(list, envVariable) < 0
    THEN Append(list, envVariable)
    ELSE list

SetContextMap(m, ctx) == [m EXCEPT ![ctx.Name] = ctx]

SetContext(t, ctx) ==
    \/ Call(t, ContextCache, "SetContext", [ctx |-> ctx])
    \/ Lock(t, "SetContext", ContextCache)
    \/ /\ InBody(t, "SetContext")
       /\ contextCache' = SetContextMap(contextCache, arg[t].ctx)
       /\ Return(t, arg[t].ctx)
       /\ Wrote(ContextCache, arg[t].ctx.Name, arg[t].ctx)
       /\ UNCHANGED <<fileCache, orbsCache, dockerCache, projectCache,
                      mutex, disk, op, arg, loc, held, client, lastLocker>>
    \/ Unlock(t, "SetContext", ContextCache)

GetContext(t, name) ==
    \/ Call(t, ContextCache, "GetContext", [name |-> name])
    \/ Lock(t, "GetContext", ContextCache)
    \/ /\ InBody(t, "GetContext")
       /\ Return(t, contextCache[arg[t].name])
       /\ UNCHANGED <<stores, mutex, disk, op, arg, loc, held, client,
                      last, lastLocker>>
    \/ Unlock(t, "GetContext", ContextCache)

RemoveContextMap(m, name) == [m EXCEPT ![name] = Nil]

RemoveContext(t, name) ==
    \/ Call(t, ContextCache, "RemoveContext", [name |-> name])
    \/ Lock(t, "RemoveContext", ContextCache)
    \/ /\ InBody(t, "RemoveContext")
       /\ contextCache' = RemoveContextMap(contextCache, arg[t].name)
       /\ Return(t, Nil)
       /\ Wrote(ContextCache, arg[t].name, Nil)
       /\ UNCHANGED <<fileCache, orbsCache, dockerCache, projectCache,
                      mutex, disk, op, arg, loc, held, client, lastLocker>>
    \/ Unlock(t, "RemoveContext", ContextCache)

\* line 227 reads the pointer into ctx; lines 229-232 dereference it (a nil
\* ctx panics), append to the record it points to and store it back
AddEnvVariableToContext(t, name, envVariable) ==
    \/ Call(t, ContextCache, "AddEnvVariableToContext",
            [name |-> name, envVariable |-> envVariable])
    \/ Lock(t, "AddEnvVariableToContext", ContextCache)
    \/ /\ InBody(t, "AddEnvVariableToContext")
       /\ loc' = [loc EXCEPT ![t] = [ctx |-> contextCache[arg[t].name]]]
       /\ pc' = [pc EXCEPT ![t] = "line229"]
       /\ UNCHANGED <<stores, mutex, disk, op, arg, ret, held, client,
                      last, lastLocker>>
    \/ /\ pc[t] = "line229"
       /\ op[t] = "AddEnvVariableToContext"
       /\ IF loc[t].ctx = Nil
          THEN /\ pc' = [pc EXCEPT ![t] = "panic"]
               /\ UNCHANGED <<contextCache, ret>>
          ELSE /\ contextCache' =
                     [contextCache EXCEPT ![arg[t].name] =
                         [loc[t].ctx EXCEPT !.envVariables =
                             AppendIfMissing(loc[t].ctx.envVariables,
                                             arg[t].envVariable)]]
               /\ Return(t, Nil)
       /\ UNCHANGED <<fileCache, orbsCache, dockerCache, projectCache,
                      mutex, disk, op, arg, loc, held, client,
                      last, lastLocker>>
    \/ Unlock(t, "AddEnvVariableToContext", ContextCache)

\* return c.contextCache: the map itself, not a copy
GetAllContext(t) ==
    \/ Call(t, ContextCache, "GetAllContext", Nil)
    \/ Lock(t, "GetAllContext", ContextCache)
    \/ /\ InBody(t, "GetAllContext")
       /\ Return(t, [ref |-> ContextCache])
       /\ UNCHANGED <<stores, mutex, disk, op, arg, loc, held, client,
                      last, lastLocker>>
    \/ Unlock(t, "GetAllContext", ContextCache)

---------------------------------------------------------------------------
(* ProjectCache *)

SetProjectMap(m, project) == [m EXCEPT ![project.Slug] = project]

SetProject(t, project) ==
    \/ Call(t, ProjectCache, "SetProject", [project |-> project])
    \/ Lock(t, "SetProject", ProjectCache)
    \/ /\ InBody(t, "SetProject")
       /\ projectCache' = SetProjectMap(projectCache, arg[t].project)
       /\ Return(t, arg[t].project)
       /\ Wrote(ProjectCache, arg[t].project.Slug, arg[t].project)
       /\ UNCHANGED <<fileCache, orbsCache, dockerCache, contextCache,
                      mutex, disk, op, arg, loc, held, client, lastLocker>>
    \/ Unlock(t, "SetProject", ProjectCache)

GetProject(t, name) ==
    \/ Call(t, ProjectCache, "GetProject", [name |-> name])
    \/ Lock(t, "GetProject", ProjectCache)
    \/ /\ InBody(t, "GetProject")
       /\ Return(t, projectCache[arg[t].name])
       /\ UNCHANGED <<stores, mutex, disk, op, arg, loc, held, client,
                      last, lastLocker>>
    \/ Unlock(t, "GetProject", ProjectCache)

RemoveProjectMap(m, name) == [m EXCEPT ![name] = Nil]

RemoveProject(t, name) ==
    \/ Call(t, ProjectCache, "RemoveProject", [name |-> name])
    \/ Lock(t, "RemoveProject", ProjectCache)
    \/ /\ InBody(t, "RemoveProject")
       /\ projectCache' = RemoveProjectMap(projectCache, arg[t].name)
       /\ Return(t, Nil)
       /\ Wrote(ProjectCache, arg[t].name, Nil)
       /\ UNCHANGED <<fileCache, orbsCache, dockerCache, contextCache,
                      mutex, disk, op, arg, loc, held, client, lastLocker>>
    \/ Unlock(t, "RemoveProject", ProjectCache)

\* return c.projectCache: the map itself, not a copy
GetAllProjects(t) ==
    \/ Call(t, ProjectCache, "GetAllProjects", Nil)
    \/ Lock(t, "GetAllProjects", ProjectCache)
    \/ /\ InBody(t, "GetAllProjects")
       /\ Return(t, [ref |-> ProjectCache])
       /\ UNCHANGED <<stores, mutex, disk, op, arg, loc, held, client,
                      last, lastLocker>>
    \/ Unlock(t, "GetAllProjects", ProjectCache)

\* line 271 reads the pointer into project; lines 273-276 dereference it (a
\* nil project panics), append to the record it points to and store it back
AddEnvVariableToProject(t, name, envVariable) ==
    \/ Call(t, ProjectCache, "AddEnvVariableToProject",
            [name |-> name, envVariable |-> envVariable])
    \/ Lock(t, "AddEnvVariableToProject", ProjectCache)
    \/ /\ InBody(t, "AddEnvVariableToProject")
       /\ loc' = [loc EXCEPT ![t] = [project |-> projectCache[arg[t].name]]]
       /\ pc' = [pc EXCEPT ![t] = "line273"]
       /\ UNCHANGED <<stores, mutex, disk, op, arg, ret, held, client,
                      last, lastLocker>>
    \/ /\ pc[t] = "line273"
       /\ op[t] = "AddEnvVariableToProject"
       /\ IF loc[t].project = Nil
          THEN /\ pc' = [pc EXCEPT ![t] = "panic"]
               /\ UNCHANGED <<projectCache, ret>>
          ELSE /\ projectCache' =
                     [projectCache EXCEPT ![arg[t].name] =
                         [loc[t].project EXCEPT !.EnvVariables =
                             AppendIfMissing(loc[t].project.EnvVariables,
                                             arg[t].envVariable)]]
               /\ Return(t, Nil)
       /\ UNCHANGED <<fileCache, orbsCache, dockerCache, contextCache,
                      mutex, disk, op, arg, loc, held, client,
                      last, lastLocker>>
    \/ Unlock(t, "AddEnvVariableToProject", ProjectCache)

---------------------------------------------------------------------------
(* GetOrbCacheFSPath *)

\* longest orb name, in path elements
MaxSegs == 2

\* A path is the sequence of its elements, and an element a name with an
\* extension; "." and ".." are elements as any other until the path is
\* cleaned.
Seg(s) == <<s, "">>
Dot    == Seg(".")
DotDot == Seg("..")

\* orbYaml + ".yml": the extension goes to the last element
WithYml(orbYaml) ==
    [i \in 1 .. Len(orbYaml) |->
        IF i = Len(orbYaml) THEN <<orbYaml[i][1], ".yml">> ELSE orbYaml[i]]

\* path.Clean of a relative path: "." is dropped, ".." drops the element
\* before it, and stays when there is none
RECURSIVE CleanRel(_, _)
CleanRel(done, p) ==
    IF p = << >> THEN done
    ELSE IF Head(p) = Dot THEN CleanRel(done, Tail(p))
    ELSE IF Head(p) = DotDot /\ done # << >> /\ done[Len(done)] # DotDot
         THEN CleanRel(SubSeq(done, 1, Len(done) - 1), Tail(p))
    ELSE CleanRel(Append(done, Head(p)), Tail(p))

\* Clean of a rooted path: ".." at the root is dropped
RECURSIVE CleanAbs(_, _)
CleanAbs(done, p) ==
    IF p = << >> THEN done
    ELSE IF Head(p) = Dot THEN CleanAbs(done, Tail(p))
    ELSE IF Head(p) = DotDot
         THEN CleanAbs(IF done = << >> THEN done
                       ELSE SubSeq(done, 1, Len(done) - 1), Tail(p))
    ELSE CleanAbs(Append(done, Head(p)), Tail(p))

\* xdg cache directory and xdg.Home
XdgCacheHome == <<Seg("xdg")>>
Home         == <<Seg("home")>>

\* a file that is put in the directory of the orbs, not in .circleci
OrbFileNoDir(orbYaml) ==
    CleanRel(<< >>, <<Seg("cci"), Seg("orbs")>> \o WithYml(orbYaml))

\* path.Join("cci", "orbs", ".circleci", orbYaml+".yml")
OrbFile(orbYaml) ==
    CleanRel(<< >>, <<Seg("cci"), Seg("orbs"), Seg(".circleci")>>
                        \o WithYml(orbYaml))

\* xdg.CacheFile(file): the file under the cache directory
CacheFile(file) == CleanAbs(<< >>, XdgCacheHome \o file)

\* filePath when xdg.CacheFile returns the error err
OrbCacheFSPath(orbYaml, err) ==
    IF err
    THEN CleanAbs(<< >>, Home \o <<Seg(".cache")>> \o OrbFile(orbYaml))
    ELSE CacheFile(OrbFile(orbYaml))

\* a caller of GetOrbCacheFSPath
PathResolver == "PathResolver"

\* the function takes no lock and touches no store
GetOrbCacheFSPath(t, orbYaml, err) ==
    /\ pc[t] = "idle"
    /\ PathResolver \in client[t]
    /\ arg' = [arg EXCEPT ![t] = [orbYaml |-> orbYaml, err |-> err]]
    /\ ret' = [ret EXCEPT ![t] = [filePath |-> OrbCacheFSPath(orbYaml, err)]]
    /\ UNCHANGED <<stores, mutex, disk, pc, op, loc, held, client,
                   last, lastLocker>>

---------------------------------------------------------------------------
(* Specifications *)

\* the orb records a resolver stores: the definition of orb k is
\* materialised at path k, and is not parsed yet
OrbsFor(orbID) == {o \in Orbs : o.FilePath = orbID}

\* the records a loader stores before it adds their variables one by one
NewContexts == {c \in Contexts : c.envVariables = << >>}
NewProjects == {p \in Projects : p.EnvVariables = << >>}

FileCacheNext(t, files, uris) ==
    \/ \E file \in files : SetFile(t, file)
    \/ \E uri \in uris : GetFile(t, uri)
    \/ GetFiles(t)
    \/ \E uri \in uris : RemoveFile(t, uri)

OrbCacheNext(t, ids, ptrs) ==
    \/ \E orbID \in ids : HasOrb(t, orbID)
    \/ \E orbID \in ids :
          \E orb \in {o \in OrbsFor(orbID) : o.ptr \in ptrs} :
             SetOrb(t, orb, orbID)
    \/ \E orbID \in ids, a \in Attrs : UpdateOrbParsedAttributes(t, orbID, a)
    \/ \E orbID \in ids : GetOrb(t, orbID)
    \/ \E orbID \in ids : RemoveOrb(t, orbID)
    \/ RemoveOrbs(t)

CacheNext(t) ==
    \/ RemoveOrbFiles(t)
    \/ ClearHostData(t)

DockerCacheNext(t, names) ==
    \/ \E name \in names, exists \in BOOLEAN : Add(t, name, exists)
    \/ \E name \in names : Get(t, name)
    \/ \E name \in names : Remove(t, name)

ContextCacheNext(t, ctxs, names, envs) ==
    \/ \E ctx \in ctxs : SetContext(t, ctx)
    \/ \E name \in names : GetContext(t, name)
    \/ \E name \in names : RemoveContext(t, name)
    \/ \E name \in names, v \in envs : AddEnvVariableToContext(t, name, v)
    \/ GetAllContext(t)

ProjectCacheNext(t, projects, names, envs) ==
    \/ \E project \in projects : SetProject(t, project)
    \/ \E name \in names : GetProject(t, name)
    \/ \E name \in names : RemoveProject(t, name)
    \/ GetAllProjects(t)
    \/ \E name \in names, v \in envs : AddEnvVariableToProject(t, name, v)

\* Spec: every goroutine works on the same store, whichever it is, and
\* calls any of its methods
Init ==
    /\ InitCache
    /\ InitThreads
    /\ InitHistory
    /\ disk = [p \in Paths |-> "file"]
    /\ \E s \in Stores : client = [t \in Threads |-> {s}]

Next ==
    \E t \in Threads :
        \/ FileCacheNext(t, Files, Keys)
        \/ OrbCacheNext(t, Keys, Objs)
        \/ DockerCacheNext(t, Keys)
        \/ ContextCacheNext(t, NewContexts, Keys, Names)
        \/ ProjectCacheNext(t, NewProjects, Keys, Names)

Spec == Init /\ [][Next]_vars

\* The caller who holds the map that GetFiles, GetAllContext or
\* GetAllProjects returned deletes key k from it: the map is the store's
\* own, and the caller holds no lock.
MutateReturned(t, k) ==
    /\ pc[t] = "idle"
    /\ held[t] \in Stores
    /\ held[t] = FileCache    => fileCache' = [fileCache EXCEPT ![k] = Nil]
    /\ held[t] = ContextCache => contextCache' = [contextCache EXCEPT ![k] = Nil]
    /\ held[t] = ProjectCache => projectCache' = [projectCache EXCEPT ![k] = Nil]
    /\ held[t] # FileCache    => UNCHANGED fileCache
    /\ held[t] # ContextCache => UNCHANGED contextCache
    /\ held[t] # ProjectCache => UNCHANGED projectCache
    /\ UNCHANGED <<orbsCache, dockerCache, mutex, disk, pc, op, arg, loc,
                   ret, held, client, last, lastLocker>>

\* SpecAlias: the goroutines work on one of the three stores that return
\* their map, and use the map they were given
InitAlias ==
    /\ InitCache
    /\ InitThreads
    /\ InitHistory
    /\ disk = [p \in Paths |-> "file"]
    /\ \E s \in {FileCache, ContextCache, ProjectCache} :
          client = [t \in Threads |-> {s}]

NextAlias ==
    \E t \in Threads :
        \/ FileCacheNext(t, Files, Keys)
        \/ ContextCacheNext(t, NewContexts, Keys, Names)
        \/ ProjectCacheNext(t, NewProjects, Keys, Names)
        \/ \E k \in Keys : MutateReturned(t, k)

SpecAlias == InitAlias /\ [][NextAlias]_vars

\* SpecRace: every goroutine sets the same key of the same store, each to a
\* value of its own, as often as it likes
RaceKey == CHOOSE k \in Keys : TRUE

RaceFile(t)    == [URI |-> RaceKey, Version |-> t]
RaceOrb(t)     == [ptr |-> t, FilePath |-> RaceKey, OrbParsedAttributes |-> 0]
RaceContext(t) == [ptr |-> t, Name |-> RaceKey, envVariables |-> << >>]
RaceProject(t) == [ptr |-> t, Slug |-> RaceKey, EnvVariables |-> << >>]

\* the value goroutine t sets in store s
RaceValue(s, t) ==
    CASE s = FileCache    -> RaceFile(t)
      [] s = OrbCache     -> RaceOrb(t)
      [] s = ContextCache -> RaceContext(t)
      [] s = ProjectCache -> RaceProject(t)

InitRace ==
    /\ InitCache
    /\ InitThreads
    /\ InitHistory
    /\ disk = [p \in Paths |-> "file"]
    /\ \E s \in {FileCache, OrbCache, ContextCache, ProjectCache} :
          client = [t \in Threads |-> {s}]

NextRace ==
    \E t \in Threads :
        \/ SetFile(t, RaceFile(t))
        \/ SetOrb(t, RaceOrb(t), RaceKey)
        \/ SetContext(t, RaceContext(t))
        \/ SetProject(t, RaceProject(t))

SpecRace == InitRace /\ [][NextRace]_vars

\* SpecEnv: the goroutines work on the ContextCache or on the ProjectCache;
\* the records they set, under one key, carry any list, one with a repeated
\* name included; the other key never has a record
EnvContexts == {c \in Contexts : c.ptr = 1 /\ c.Name = RaceKey}
EnvProjects == {p \in Projects : p.ptr = 1 /\ p.Slug = RaceKey}

InitEnv ==
    /\ InitCache
    /\ InitThreads
    /\ InitHistory
    /\ disk = [p \in Paths |-> "file"]
    /\ \E s \in {ContextCache, ProjectCache} :
          client = [t \in Threads |-> {s}]

NextEnv ==
    \E t \in Threads :
        \/ \E ctx \in EnvContexts : SetContext(t, ctx)
        \/ \E name \in Keys : GetContext(t, name)
        \/ \E name \in Keys, v \in Names : AddEnvVariableToContext(t, name, v)
        \/ \E project \in EnvProjects : SetProject(t, project)
        \/ \E name \in Keys : GetProject(t, name)
        \/ \E name \in Keys, v \in Names : AddEnvVariableToProject(t, name, v)

SpecEnv == InitEnv /\ [][NextEnv]_vars

\* SpecHost: goroutine 1 alone works on the OrbCache and resets the host
\* data; the others read the FileCache.  Any of the orb files may be
\* missing or undeletable.
InitHost ==
    /\ InitCache
    /\ InitThreads
    /\ InitHistory
    /\ disk \in [Paths -> DiskStates]
    /\ client = [t \in Threads |-> IF t = 1 THEN {OrbCache, Cache}
                                            ELSE {FileCache}]

NextHost ==
    \E t \in Threads :
        \/ \E orbID \in Keys :
              \E orb \in {o \in OrbsFor(orbID) : o.ptr = 1} :
                 SetOrb(t, orb, orbID)
        \/ \E orbID \in Keys : RemoveOrb(t, orbID)
        \/ RemoveOrbs(t)
        \/ RemoveOrbFiles(t)
        \/ ClearHostData(t)
        \/ \E uri \in Keys : GetFile(t, uri)

SpecHost == InitHost /\ [][NextHost]_vars

\* SpecLocks: each goroutine works on a store of its own choice, or on the
\* Cache; every function is called, on the first key only
InitLocks ==
    /\ InitCache
    /\ InitThreads
    /\ InitHistory
    /\ disk = [p \in Paths |-> "file"]
    /\ client \in [Threads -> {{s} : s \in Stores \cup {Cache}}]

\* a step of goroutine t
StepLocks(t) ==
    \/ FileCacheNext(t, {f \in Files : f.URI = RaceKey /\ f.Version = 1},
                     {RaceKey})
    \/ OrbCacheNext(t, {RaceKey}, {1})
    \/ CacheNext(t)
    \/ DockerCacheNext(t, {RaceKey})
    \/ ContextCacheNext(t, {c \in NewContexts :
                               c.Name = RaceKey /\ c.ptr = 1},
                        {RaceKey}, {1})
    \/ ProjectCacheNext(t, {p \in NewProjects :
                               p.Slug = RaceKey /\ p.ptr = 1},
                        {RaceKey}, {1})

NextLocks == \E t \in Threads : StepLocks(t)

SpecLocks == InitLocks /\ [][NextLocks]_vars

\* SpecLive: SpecLocks under fair scheduling.  A goroutine that is inside a
\* call takes its next step: the scheduler runs every runnable goroutine,
\* and a sync.Mutex hands the lock to a goroutine that has waited for it
\* (starvation mode), so a Lock that is possible again and again is taken.
\* A caller is not obliged to call.
Proceed(t) == pc[t] # "idle" /\ StepLocks(t)

Fairness == \A t \in Threads : SF_vars(Proceed(t))

SpecLive == InitLocks /\ [][NextLocks]_vars /\ Fairness

\* SpecPath: the goroutines resolve the paths of orbs whose names are made
\* of any elements, "." and ".." included, with a cache directory that can
\* be used or not
Segments == {Seg("ns"), Seg("orb"), Dot, DotDot}

RECURSIVE PathsUpTo(_)
PathsUpTo(n) ==
    IF n = 1 THEN {<<x>> : x \in Segments}
    ELSE LET S == PathsUpTo(n - 1)
         IN  S \cup {Append(p, x) : p \in {q \in S : Len(q) = n - 1},
                                    x \in Segments}

OrbNames == PathsUpTo(MaxSegs)

InitPath ==
    /\ InitCache
    /\ InitThreads
    /\ InitHistory
    /\ disk = [p \in Paths |-> "file"]
    /\ client = [t \in Threads |-> {PathResolver}]

NextPath ==
    \E t \in Threads :
        \E orbYaml \in OrbNames, err \in BOOLEAN :
            GetOrbCacheFSPath(t, orbYaml, err)

SpecPath == InitPath /\ [][NextPath]_vars

---------------------------------------------------------------------------
(* Helpers of the properties *)

\* the map of store s
MapOf(s) ==
    CASE s = FileCache    -> fileCache
      [] s = OrbCache     -> orbsCache
      [] s = DockerCache  -> dockerCache
      [] s = ContextCache -> contextCache
      [] s = ProjectCache -> projectCache

\* the pointer that v is: the record without the fields the store changes
\* in place
PointerOf(v) ==
    [f \in DOMAIN v \ {"OrbParsedAttributes", "envVariables", "EnvVariables"}
        |-> v[f]]

GetOps == [GetFile |-> FileCache, GetOrb |-> OrbCache, Get |-> DockerCache,
           GetContext |-> ContextCache, GetProject |-> ProjectCache]

\* the key a call of a Get function asks for
KeyOf(a) ==
    IF "uri" \in DOMAIN a THEN a.uri
    ELSE IF "orbID" \in DOMAIN a THEN a.orbID
    ELSE a.name

---------------------------------------------------------------------------
(* C1 *)

\* C1: in each of the five stores, a Get of key k returns the pointer given
\* to the most recent Set (Add) of k, and nil when k was never set or was
\* last removed or cleared.
C1_GetReturnsLastSet ==
    \A t \in Threads :
        (pc[t] = "ret" /\ op[t] \in DOMAIN GetOps) =>
            PointerOf(ret[t]) = PointerOf(last[GetOps[op[t]]][KeyOf(arg[t])])

\* a Get returns a context that was set and then given a variable, while
\* another key of the store is absent
C1_Witness ==
    \E t \in Threads :
        /\ pc[t] = "ret"
        /\ op[t] = "GetContext"
        /\ ret[t] # Nil
        /\ ret[t].envVariables # << >>
        /\ \E k \in Keys : contextCache[k] = Nil

---------------------------------------------------------------------------
(* C8 *)

\* the functions C8 names
C8_Ops == {"SetFile", "GetFile", "GetFiles", "RemoveFile",
           "HasOrb", "SetOrb", "GetOrb", "RemoveOrb", "RemoveOrbs",
           "RemoveOrbFiles",
           "Add", "Get", "Remove",
           "SetContext", "GetContext", "RemoveContext", "GetAllContext",
           "AddEnvVariableToContext",
           "SetProject", "GetProject", "RemoveProject", "GetAllProjects",
           "AddEnvVariableToProject"}

\* C8: no call of Set, Get, Has, Remove, GetAll, RemoveAll, CheckAndStore,
\* AddEnvVariable or ClearHostData ends in a fault, whether its key has a
\* record or not.
C8_NoHardFault ==
    \A t \in Threads : op[t] \in C8_Ops => pc[t] # "panic"

---------------------------------------------------------------------------
(* C2 *)

\* the step is a change the holder t makes to the map it was given
CallerStep(t) == \E k \in Keys : MutateReturned(t, k)

\* C2: the map GetFiles, GetAllContext or GetAllProjects returned is a
\* snapshot: a step of the store does not change the map a caller already
\* holds, and a change the caller makes to it does not change the store.
C2_GetAllIsSnapshot ==
    [][\A t \in Threads :
          (held[t] \in Stores /\ held'[t] = held[t]) =>
             /\ ~CallerStep(t) => MapOf(held[t])' = MapOf(held[t])
             /\ CallerStep(t) => stores' = stores]_vars

---------------------------------------------------------------------------
(* C3 *)

RaceStores == {FileCache, OrbCache, ContextCache, ProjectCache}

\* C3: when the concurrent Sets of one key have all returned, the key holds
\* the value of the goroutine that locked the store last, and it is the
\* only entry of the store.
C3_LastLockerWins ==
    (\A t \in Threads : pc[t] = "idle") =>
        \A s \in RaceStores :
            lastLocker[s] # None =>
               /\ MapOf(s)[RaceKey] = RaceValue(s, lastLocker[s])
               /\ Entries(MapOf(s)) = {RaceKey}

\* every goroutine has returned and the one that locked first lost
C3_Witness ==
    /\ \A t \in Threads : pc[t] = "idle"
    /\ \E s \in RaceStores :
          /\ lastLocker[s] = NumThreads
          /\ MapOf(s)[RaceKey] = RaceValue(s, NumThreads)
          /\ last[s][RaceKey] = MapOf(s)[RaceKey]

---------------------------------------------------------------------------
(* C4, C5, C6 *)

\* how often x occurs in list
RECURSIVE Count(_, _)
Count(list, x) ==
    IF list = << >> THEN 0
    ELSE (IF Head(list) = x THEN 1 ELSE 0) + Count(Tail(list), x)

Elems(list) == {list[i] : i \in 1 .. Len(list)}

NoDuplicate(list) == \A x \in Elems(list) : Count(list, x) = 1

\* the functions that add a variable, with the store and the position of
\* the step that writes the record back
AddEnvOps == [AddEnvVariableToContext |-> ContextCache,
              AddEnvVariableToProject |-> ProjectCache]

\* the list of record r of store s
EnvOf(s, r) == IF s = ContextCache THEN r.envVariables ELSE r.EnvVariables

\* goroutine t writes the record back in this step
WritesBack(t) ==
    /\ op[t] \in DOMAIN AddEnvOps
    /\ pc[t] \in {"line229", "line273"}
    /\ pc'[t] = "ret"

\* the list of the record t adds to, before and after the step
ListBefore(t) == EnvOf(AddEnvOps[op[t]], MapOf(AddEnvOps[op[t]])[arg[t].name])
ListAfter(t)  == EnvOf(AddEnvOps[op[t]], MapOf(AddEnvOps[op[t]])'[arg[t].name])

\* what C4 says of a call, but for the number of occurrences
C4_Call(t) ==
    LET x == arg[t].envVariable
    IN  /\ Count(ListBefore(t), x) > 0 => ListAfter(t) = ListBefore(t)
        /\ Count(ListBefore(t), x) = 0 => ListAfter(t) = Append(ListBefore(t), x)
        /\ AppendIfMissing(ListAfter(t), x) = ListAfter(t)

InStore(t, s) ==
    /\ pc[t] \in {"cs", "ret", "panic", "line229", "line273"}
    /\ \/ op[t] \in DOMAIN AddEnvOps /\ AddEnvOps[op[t]] = s
       \/ s = ContextCache /\ op[t] \in {"SetContext", "GetContext",
                                        "RemoveContext", "GetAllContext"}
       \/ s = ProjectCache /\ op[t] \in {"SetProject", "GetProject",
                                        "RemoveProject", "GetAllProjects"}

\* between the lookup and the write-back the record is the one looked up,
\* and no other goroutine is in a function of the store
C6_Isolated ==
    \A t \in Threads :
        (op[t] \in DOMAIN AddEnvOps /\ pc[t] \in {"line229", "line273"}) =>
            /\ loc[t][CHOOSE f \in DOMAIN loc[t] : TRUE] =
                  MapOf(AddEnvOps[op[t]])[arg[t].name]
            /\ \A u \in Threads \ {t} : ~InStore(u, AddEnvOps[op[t]])

\* the write-back keeps every name the record holds at that moment and
\* adds the new one
C6_NoLostUpdate(t) ==
    Elems(ListAfter(t)) = Elems(ListBefore(t)) \cup {arg[t].envVariable}

---------------------------------------------------------------------------
(* C7 *)

\* ClearHostData of goroutine t is about to return
ClearHostDataDone(t) ==
    /\ pc[t] = "ret"
    /\ op[t] = "RemoveOrbs"
    /\ arg[t] # Nil
    /\ arg[t].in = "ClearHostData"

\* C7: when ClearHostData returns, with no other call on the OrbCache
\* meanwhile, the OrbCache is empty and no file of an entry it held at the
\* call is on disk.
C7_ClearHostData ==
    \A t \in Threads :
        ClearHostDataDone(t) =>
            /\ Entries(orbsCache) = {}
            /\ \A p \in arg[t].atCall : disk[p] = "absent"

\* C7 amended: ... no file of an entry it held at the call is on disk,
\* except one whose deletion failed.
C7_ClearHostDataAmended ==
    \A t \in Threads :
        ClearHostDataDone(t) =>
            /\ Entries(orbsCache) = {}
            /\ \A p \in arg[t].atCall : disk[p] # "file"

\* ClearHostData returns after it held two entries, one with a file it
\* deleted and one with no file
C7_Witness ==
    \E t \in Threads :
        /\ ClearHostDataDone(t)
        /\ Cardinality(arg[t].atCall) = 2
        /\ \E p \in arg[t].atCall : disk[p] = "absent"
        /\ lastLocker[FileCache] = t

---------------------------------------------------------------------------
(* C9, C10 *)

\* the store whose method fn is; RemoveOrbFiles and ClearHostData work on
\* the OrbCache
TargetOf(fn) ==
    CASE fn \in {"SetFile", "GetFile", "GetFiles", "RemoveFile"} -> FileCache
      [] fn \in {"HasOrb", "SetOrb", "UpdateOrbParsedAttributes", "GetOrb",
                 "RemoveOrb", "RemoveOrbs", "RemoveOrbFiles"} -> OrbCache
      [] fn \in {"Add", "Get", "Remove"} -> DockerCache
      [] fn \in {"SetContext", "GetContext", "RemoveContext",
                 "AddEnvVariableToContext", "GetAllContext"} -> ContextCache
      [] fn \in {"SetProject", "GetProject", "RemoveProject",
                 "GetAllProjects", "AddEnvVariableToProject"} -> ProjectCache

\* goroutine t is blocked in Lock on the mutex of store s
Requests(t, s) ==
    \/ pc[t] = "lock" /\ s = TargetOf(op[t])
    \/ pc[t] = "lock2" /\ s = RemoveOrbFilesLocks[2]

\* the mutexes goroutine t holds
Holds(t) == {m \in Stores : mutex[m] = t}

\* t waits for a mutex that u holds
WaitsFor(t, u) ==
    \E s \in Stores : Requests(t, s) /\ mutex[CacheMutex(s)] = u

\* C9: a call on one store never waits for a mutex because of a call on
\* another store.
C9_NoCrossStoreWait ==
    \A t, u \in Threads :
        WaitsFor(t, u) => TargetOf(op[t]) = TargetOf(op[u])

\* C9 amended: ... except that RemoveOrbFiles, which works on the OrbCache,
\* takes the FileCache mutex: it waits for calls on the FileCache, and they
\* wait for it.
C9_NoCrossStoreWaitAmended ==
    \A t, u \in Threads :
        WaitsFor(t, u) =>
            \/ TargetOf(op[t]) = TargetOf(op[u])
            \/ /\ "RemoveOrbFiles" \in {op[t], op[u]}
               /\ {TargetOf(op[t]), TargetOf(op[u])} = {OrbCache, FileCache}
               /\ mutex[CacheMutex(FileCache)] = u

\* a call on the ContextCache waits for another call on the ContextCache
\* that is between its lookup and its write-back
C9_Witness ==
    \E t, u \in Threads :
        /\ WaitsFor(t, u)
        /\ op[t] = "GetContext"
        /\ op[u] = "AddEnvVariableToContext"
        /\ pc[u] = "line229"

\* C10: no goroutine requests the OrbCache mutex while it holds a mutex;
\* only RemoveOrbFiles holds two, the OrbCache mutex taken first and the
\* FileCache mutex second, both held during the whole loop.
C10_LockOrder ==
    \A t \in Threads :
        /\ Requests(t, OrbCache) => Holds(t) = {}
        /\ Cardinality(Holds(t)) <= 2
        /\ Cardinality(Holds(t)) = 2 =>
              /\ op[t] = "RemoveOrbFiles"
              /\ Holds(t) = {OrbCache, FileCache}
        /\ (op[t] = "RemoveOrbFiles" /\ pc[t] = "lock2") => Holds(t) = {OrbCache}
        /\ (op[t] = "RemoveOrbFiles" /\ pc[t] = "range") =>
              Holds(t) = {OrbCache, FileCache}
        /\ (op[t] = "RemoveOrbFiles" /\ pc[t] = "unlock1") => Holds(t) = {OrbCache}

\* RemoveOrbFiles is in its loop, an entry still to visit, while a call on
\* the OrbCache requests its mutex
C10_Witness ==
    \E t, u \in Threads :
        /\ op[t] = "RemoveOrbFiles" /\ pc[t] = "range"
        /\ loc[t].todo # {}
        /\ Holds(t) = {OrbCache, FileCache}
        /\ Requests(u, OrbCache)

---------------------------------------------------------------------------
(* C11 *)

\* goroutine t is inside a call
InCall(t) == pc[t] \notin {"idle", "dead"}

\* a goroutine that is in no call holds no mutex
C11_Released ==
    \A t \in Threads : ~InCall(t) => Holds(t) = {}

---------------------------------------------------------------------------
(* C12 *)

\* goroutine t is between the first and the last access of its function to
\* the map of store s, or about to make the first one
Accesses(t, s) ==
    \/ /\ pc[t] \in {"cs", "line229", "line273"}
       /\ s = TargetOf(op[t])
    \/ /\ pc[t] = "range"
       /\ s = OrbCache

\* the step changes the map of store s
Changes(s) == MapOf(s)' # MapOf(s)

\* a goroutine inside a critical section of a store holds its mutex and is
\* alone there
C12_Exclusive ==
    \A s \in Stores :
        \A t \in Threads :
            Accesses(t, s) =>
                /\ mutex[CacheMutex(s)] = t
                /\ \A u \in Threads \ {t} : ~Accesses(u, s)

\* C12: at most one goroutine is inside a critical section of a store,
\* reader or writer; it holds the mutex of the store before its first access
\* to the map and until after the last one, and the map changes only in a
\* step of the holder.
C12_MutualExclusion ==
    /\ []C12_Exclusive
    /\ [][\A s \in Stores :
             Changes(s) =>
                /\ mutex[CacheMutex(s)] \in Threads
                /\ mutex'[CacheMutex(s)] = mutex[CacheMutex(s)]
                /\ Accesses(mutex[CacheMutex(s)], s)]_vars

\* a reader is in the critical section of the OrbCache while a writer waits
\* for its mutex
C12_Witness ==
    \E t, u \in Threads :
        /\ Accesses(t, OrbCache) /\ op[t] = "GetOrb"
        /\ Requests(u, OrbCache) /\ op[u] = "SetOrb"

---------------------------------------------------------------------------
(* C13 *)

\* goroutine t executes the body of fn in this step
Executes(t, fn) == InBody(t, fn) /\ pc'[t] # "cs"

\* the entry Add(name, exists) makes
CheckedImage(exists) == [Checked |-> TRUE, Exists |-> exists]

\* every entry of the DockerCache is checked
C13_Checked ==
    \A k \in Keys : dockerCache[k] # Nil => dockerCache[k].Checked

\* C13: every entry of the DockerCache has Checked true; Add(name, exists)
\* stores and returns an entry whose Exists is its argument, whatever entry
\* the name had, and an entry is created or changed by no other step.
C13_CheckAndStore ==
    /\ []C13_Checked
    /\ [][/\ \A t \in Threads :
               Executes(t, "Add") =>
                  /\ dockerCache'[arg[t].name] = CheckedImage(arg[t].exists)
                  /\ ret'[t] = CheckedImage(arg[t].exists)
          /\ \A k \in Keys :
               (dockerCache'[k] # dockerCache[k] /\ dockerCache'[k] # Nil) =>
                  \E t \in Threads : Executes(t, "Add") /\ arg[t].name = k]_vars

\* Add has returned an entry for an image that does not exist while the
\* other name has an entry for an image that exists
C13_Witness ==
    \E t \in Threads :
        /\ pc[t] = "ret" /\ op[t] = "Add"
        /\ ret[t] = CheckedImage(FALSE)
        /\ dockerCache[arg[t].name] = ret[t]
        /\ \E k \in Keys \ {arg[t].name} : dockerCache[k] = CheckedImage(TRUE)

---------------------------------------------------------------------------
(* C14 *)

\* RemoveOrbs has run and not returned yet: no other call on the OrbCache
\* has run since
C14_Emptied ==
    \A t \in Threads :
        (pc[t] = "ret" /\ op[t] = "RemoveOrbs") =>
            /\ Entries(orbsCache) = {}
            /\ \A k \in loc[t].visited : orbsCache[k] = Nil

\* HasOrb and GetOrb answer from the map as it is
C14_Answers ==
    \A t \in Threads :
        /\ (pc[t] = "ret" /\ op[t] = "HasOrb") =>
              ret[t].ok = (orbsCache[arg[t].orbID] # Nil)
        /\ (pc[t] = "ret" /\ op[t] = "GetOrb") =>
              ret[t] = orbsCache[arg[t].orbID]

\* C14: when RemoveOrbs has run the OrbCache has no key, whether it had
\* keys or none; until a SetOrb runs it stays empty, HasOrb answers false
\* and GetOrb answers nil for every key.
C14_RemoveOrbs ==
    /\ []C14_Emptied
    /\ []C14_Answers
    /\ [][\A k \in Keys :
             (orbsCache[k] = Nil /\ orbsCache'[k] # Nil) =>
                \E t \in Threads :
                    Executes(t, "SetOrb") /\ arg[t].orbID = k]_vars

\* RemoveOrbs has deleted two entries while a HasOrb waits for the mutex
C14_Witness ==
    \E t, u \in Threads :
        /\ pc[t] = "ret" /\ op[t] = "RemoveOrbs"
        /\ Cardinality(loc[t].visited) >= 2
        /\ pc[u] = "lock" /\ op[u] = "HasOrb"

---------------------------------------------------------------------------
(* C15 *)

\* path p ends in the elements of q
EndsIn(p, q) ==
    /\ Len(q) <= Len(p)
    /\ SubSeq(p, Len(p) - Len(q) + 1, Len(p)) = q

\* cci/orbs/.circleci/<orbName>.yml
C15_Suffix(orbYaml) ==
    <<Seg("cci"), Seg("orbs"), Seg(".circleci")>> \o WithYml(orbYaml)

\* the cache root of each branch
C15_Root(err) == IF err THEN Home \o <<Seg(".cache")>> ELSE XdgCacheHome

\* goroutine t holds the path of an orb name
C15_Resolved(t) == "filePath" \in DOMAIN ret[t]

\* the name has no element "." or ".."
C15_Plain(orbYaml) ==
    \A i \in 1 .. Len(orbYaml) : orbYaml[i] \notin {Dot, DotDot}

\* two calls with the same name and the same branch give the same path
C15_Deterministic ==
    \A t, u \in Threads :
        (C15_Resolved(t) /\ C15_Resolved(u) /\ arg[t] = arg[u]) =>
            ret[t] = ret[u]

---------------------------------------------------------------------------
(* C16 *)

RemoveOps == {"RemoveFile", "RemoveOrb", "Remove", "RemoveContext",
              "RemoveProject"}

\* the step of goroutine t, which removes key k of store s, changes nothing
\* but the entry of k
C16_Frame(t, s, k) ==
    /\ pc'[t] = "ret"
    /\ MapOf(s)'[k] = Nil
    /\ \A j \in Keys \ {k} : MapOf(s)'[j] = MapOf(s)[j]
    /\ MapOf(s)[k] = Nil => MapOf(s)' = MapOf(s)
    /\ \A o \in Stores \ {s} : MapOf(o)' = MapOf(o)
    /\ disk' = disk

\* C16: Remove(k) deletes the entry of k if there is one and changes
\* nothing if there is none; it ends without a fault, every other key of
\* the store keeps its value and the four other stores are unchanged.
C16_RemoveFrame ==
    [][\A t \in Threads :
          \A fn \in RemoveOps :
              Executes(t, fn) => C16_Frame(t, TargetOf(fn), KeyOf(arg[t]))]_vars

\* Remove has deleted the entry of an image, the other image keeps its
\* entry, and a Get of the deleted name waits
C16_Witness ==
    \E t, u \in Threads :
        /\ pc[t] = "ret" /\ op[t] = "Remove"
        /\ dockerCache[arg[t].name] = Nil
        /\ \E k \in Keys \ {arg[t].name} : dockerCache[k] # Nil
        /\ pc[u] = "lock" /\ op[u] = "Get" /\ arg[u].name = arg[t].name

---------------------------------------------------------------------------
(* C17 *)

\* goroutine t is in ClearHostData
InClearHostData(t) ==
    /\ op[t] \in {"RemoveOrbFiles", "RemoveOrbs"}
    /\ arg[t] # Nil
    /\ arg[t].in = "ClearHostData"

\* the step is one of goroutine t
StepOf(t) == <<pc[t], loc[t], arg[t]>>' # <<pc[t], loc[t], arg[t]>>

\* the paths of the entries the OrbCache holds
EntryPaths == {orbsCache[k].FilePath : k \in Entries(orbsCache)}

\* C17: no step of ClearHostData changes the FileCache, the DockerCache,
\* the ContextCache or the ProjectCache, though it holds the FileCache mutex
\* during its loop; a file it deletes is at the path of an entry the
\* OrbCache holds during the loop, so the file of an orb that has no entry
\* any more stays.
C17_ClearHostDataFrame ==
    /\ [](\A t \in Threads :
            (InClearHostData(t) /\ pc[t] = "range") =>
                mutex[CacheMutex(FileCache)] = t)
    /\ [][\A t \in Threads :
             (InClearHostData(t) /\ StepOf(t)) =>
                /\ <<fileCache, dockerCache, contextCache, projectCache>>' =
                      <<fileCache, dockerCache, contextCache, projectCache>>
                /\ \A p \in Paths :
                      disk'[p] # disk[p] =>
                         /\ pc[t] = "range"
                         /\ disk'[p] = "absent"
                         /\ p \in EntryPaths]_vars
    /\ [][\A p \in Paths : p \notin EntryPaths => disk'[p] = disk[p]]_vars

\* ClearHostData is about to return; the orb the OrbCache held when it was
\* called was removed before its loop, and the file of that orb is there
C17_Witness ==
    \E t \in Threads :
        /\ ClearHostDataDone(t)
        /\ arg[t].atCall # {}
        /\ \A p \in arg[t].atCall : disk[p] = "file"

---------------------------------------------------------------------------
(* C18 *)

\* the step of goroutine t, which updates the record of id with attributes
\* a, changes the attributes of that record and nothing else
C18_Frame(t, id, a) ==
    /\ pc'[t] = "ret"
    /\ ret'[t] = [attrs |-> a]
    /\ orbsCache'[id] # Nil
    /\ orbsCache'[id].OrbParsedAttributes = a
    /\ orbsCache'[id].ptr = orbsCache[id].ptr
    /\ orbsCache'[id].FilePath = orbsCache[id].FilePath
    /\ \A k \in Keys \ {id} : orbsCache'[k] = orbsCache[k]
    /\ Entries(orbsCache') = Entries(orbsCache)
    /\ <<fileCache, dockerCache, contextCache, projectCache, disk>>' =
          <<fileCache, dockerCache, contextCache, projectCache, disk>>

\* C18: UpdateOrbParsedAttributes(id, attrs) on an id that has a record
\* sets the attributes of that record in place and returns attrs; the file
\* path of the record, the keys of the OrbCache and the other records stay,
\* and a GetOrb then returns the record with these attributes.  On an id
\* with no record nothing is set.
C18_UpdateInPlace ==
    /\ []C14_Answers
    /\ [][\A t \in Threads :
             Executes(t, "UpdateOrbParsedAttributes") =>
                IF orbsCache[arg[t].orbID] # Nil
                THEN C18_Frame(t, arg[t].orbID, arg[t].parsedOrbAttributes)
                ELSE orbsCache' = orbsCache]_vars

\* GetOrb returns the second of two records set under an id, with the
\* attributes of a second update, while the other id has a record that is
\* not parsed
C18_Witness ==
    \E t \in Threads :
        /\ pc[t] = "ret" /\ op[t] = "GetOrb"
        /\ ret[t] # Nil
        /\ ret[t].ptr = 2
        /\ ret[t].OrbParsedAttributes = 2
        /\ \E k \in Keys \ {arg[t].orbID} :
              orbsCache[k] # Nil /\ orbsCache[k].OrbParsedAttributes = 0

---------------------------------------------------------------------------
(* C19 *)

\* goroutine t is in the file-removal step of ClearHostData, the OrbCache
\* mutex taken
InRemoval(t) ==
    /\ InClearHostData(t)
    /\ op[t] = "RemoveOrbFiles"
    /\ pc[t] \in {"lock2", "range", "unlock2", "unlock1"}

\* goroutine t is in ClearHostData, the file-removal step over and the
\* clear step not executed
InGap(t) ==
    /\ InClearHostData(t)
    /\ \/ pc[t] = "line200"
       \/ op[t] = "RemoveOrbs" /\ pc[t] \in {"lock", "cs"}

\* the clear step of ClearHostData has removed an entry whose file is there
C19_Dropped(t) ==
    /\ ClearHostDataDone(t)
    /\ \E k \in loc[t].visited : disk[k] = "file"

\* C19: from the file-removal step of ClearHostData to its clear step the
\* OrbCache changes in no step of another goroutine, and the clear step
\* removes no entry whose file is left on disk.
C19_Atomic ==
    /\ [](\A t \in Threads : ~C19_Dropped(t))
    /\ [][\A t \in Threads :
             ((InRemoval(t) \/ InGap(t)) /\ ~StepOf(t)) =>
                orbsCache' = orbsCache]_vars

\* when the loop of the file-removal step is over, no entry of the OrbCache
\* has its file on disk
C19_AllVisited ==
    \A t \in Threads :
        (InRemoval(t) /\ pc[t] \in {"unlock2", "unlock1"}) =>
            \A k \in Entries(orbsCache) : disk[orbsCache[k].FilePath] # "file"

\* C19 amended: each step of ClearHostData is atomic on its own.  During
\* the file-removal step the OrbCache changes in no step of another
\* goroutine and every entry is visited; between the two steps the mutex is
\* free, and the clear step removes whatever the OrbCache holds then.
C19_StepsAtomic ==
    /\ []C19_AllVisited
    /\ [](\A t \in Threads : InRemoval(t) => mutex[CacheMutex(OrbCache)] = t)
    /\ [][\A t \in Threads :
             (InRemoval(t) /\ ~StepOf(t)) => orbsCache' = orbsCache]_vars
    /\ [][\A t \in Threads :
             (InClearHostData(t) /\ Executes(t, "RemoveOrbs")) =>
                /\ loc'[t].visited = Entries(orbsCache)
                /\ Entries(orbsCache') = {}]_vars

\* ClearHostData found the OrbCache empty when it was called and in its
\* file-removal step; its clear step has removed an orb that was set in
\* between, and the file of that orb is on disk
C19_Witness ==
    \E t \in Threads :
        /\ C19_Dropped(t)
        /\ arg[t].atCall = {}

---------------------------------------------------------------------------
(* C20 *)

\* the functions that dereference the record of their key
FaultOps == {"UpdateOrbParsedAttributes", "AddEnvVariableToContext",
             "AddEnvVariableToProject"}

\* goroutine t is in the body of such a function, on a key with no record
OnMissingKey(t) ==
    /\ op[t] \in FaultOps
    /\ pc[t] \in {"cs", "line229", "line273", "panic"}
    /\ MapOf(TargetOf(op[t]))[KeyOf(arg[t])] = Nil

\* a fault is raised on a key with no record only, and a goroutine that
\* ended by a fault holds no mutex
C20_Faulted ==
    \A t \in Threads :
        /\ pc[t] = "panic" => OnMissingKey(t)
        /\ pc[t] = "dead" => Holds(t) = {}

\* C20: a call that faults on a key with no record changes no store and
\* creates no entry for the key; its mutex is released, and a goroutine
\* that waits for a mutex gets it.
C20_FaultLeavesStore ==
    /\ []C20_Faulted
    /\ [][\A t \in Threads :
             (OnMissingKey(t) /\ StepOf(t)) =>
                /\ stores' = stores
                /\ disk' = disk
                /\ pc'[t] \in {"line229", "line273", "panic", "dead"}
                /\ pc[t] = "panic" => mutex'[CacheMutex(TargetOf(op[t]))] = None]_vars
    /\ \A u \in Threads : (pc[u] = "lock") ~> (pc[u] # "lock")

\* a goroutine ended by a fault in the ContextCache, and the other one took
\* the mutex of the ContextCache after it
C20_Witness ==
    \E t, u \in Threads :
        /\ pc[t] = "dead" /\ client[t] = {ContextCache}
        /\ pc[u] = "ret" /\ op[u] = "SetContext"
        /\ lastLocker[ContextCache] = u
        /\ mutex[CacheMutex(ContextCache)] = u

====
